---- MODULE Spec2Model ----
(***************************************************************************)
(* Community bulletin board: the post service over its store, the /posts   *)
(* route handlers, and the /process-audio extraction pipeline.             *)
(*                                                                         *)
(*   Spec      the post service driven by a single writer (every           *)
(*             operation runs to completion before the next starts),       *)
(*             with storage reads and writes that may fail                  *)
(*   SpecRace  two createPost calls whose awaits interleave                 *)
(*   SpecAudio one /process-audio request                                   *)
(***************************************************************************)
EXTENDS Integers, Sequences, FiniteSets, TLC

VARIABLES
    store,      \* the persisted post list: [exists, posts]; no file / no key at first
    resp,       \* the outcome of the last operation: [op, status, body], and the
                \*          id argument of an operation on one post
    created,    \* history: the posts returned by createPost, in call order
    fault,      \* history: the last operation hit a storage fault
    faults,     \* history: the number of operations so far that hit a storage fault
    mutations,  \* history: the number of updatePost and deletePost calls so far
    latest,     \* history: the post of the last 201 not followed by another write yet,
                \*          whether the write of that createPost succeeded, and how
                \*          its read ended
    pure        \* history: every operation so far was a createPost

storeVars == <<store, resp, created, fault, faults, mutations, latest, pure>>

\* Two concurrent createPost calls (Redis-backed store, one step per await)
VARIABLES
    pc,         \* where each call stands: idle, exists, seed, get, save, done
    callData,   \* the argument of each call
    callPosts,     \* the local list of each call, after posts.unshift(newPost)
    seen,       \* history: the number of savePosts writes done when the call got its list
    nwrites     \* history: the number of savePosts writes done so far

raceVars == <<pc, callData, callPosts, seen, nwrites>>

\* One POST /process-audio request
VARIABLES
    apc,        \* where the handler stands: start, transcribe, extract, cleanup, done
    areq,       \* the request and the configuration: [key, multipart, audio, type]
    postType,   \* formData.get('type') || 'Offer'
    tempFilePath, \* tempFilePath is set (not '')
    tempFile,   \* the temp audio file of the request exists on disk
    attempt,    \* the loop counter of processTranscriptionWithRetries
    lastError,  \* lastError of processTranscriptionWithRetries
    llmLog,     \* history: the reply and the end of every language model call made
    sent,       \* history: the outcome of every transcription request sent
    unlinks,    \* history: the outcome of every fs.unlink call made
    aresp       \* the response: [status, body]

audioVars ==
    <<apc, areq, postType, tempFilePath, tempFile, attempt, lastError, llmLog,
      sent, unlinks, aresp>>

\* The creation form (PostOffer) and its voice-recording widget (AudioRecorder)
VARIABLES
    formData,     \* the form state: title, description, location, category, author
    filledFields, \* the widget's filledFields
    nedits,       \* history: the number of manual edits so far
    recordings    \* history: for every recording processed, the form before it,
                  \*          the response data and the widget variant

formVars == <<formData, filledFields, nedits, recordings>>

\* Two POST /process-audio requests and the temp directory they share
VARIABLES
    clock,         \* Date.now(), in milliseconds
    tempDir,       \* os.tmpdir(): for each file name the bytes of the file, 0 for no file
    hpc,           \* where each handler stands: idle, write, read, finally, done
    tempFilePaths, \* tempFilePath of each handler, 0 for ''
    fileContent    \* what fs.readFile gave each handler: 0 not read yet, ENOENT,
                   \* or the bytes read

tempVars == <<clock, tempDir, hpc, tempFilePaths, fileContent>>

\* The voice-recording widget (AudioRecorder): its state, its refs, the
\* MediaRecorder objects it created and its requests
VARIABLES
    isRecording,      \* useState(false)
    isProcessing,     \* useState(false)
    mediaRecorderRef, \* mediaRecorderRef.current, 0 for null
    chunksRef,        \* chunksRef.current
    recorders,        \* each startRecording call and its MediaRecorder: none,
                      \* getUserMedia (awaited), recording, stopping (stop() called,
                      \* the stop event pending), inactive, failed
    inFlight,         \* the recordings whose /api/process-audio request is in flight
    blobs             \* history: every audio blob built, [rec, chunks]

recVars ==
    <<isRecording, isProcessing, mediaRecorderRef, chunksRef, recorders, inFlight, blobs>>

vars == <<storeVars, raceVars, audioVars, formVars, tempVars, recVars>>

(***************************************************************************)
(* Bounds of the model                                                     *)
(***************************************************************************)
MaxCreates == 2
MaxMutations == 1
MaxFaults == 1
MaxEdits == 2
MaxRecordings == 2
MaxClock == 2
MaxRecorders == 3

(***************************************************************************)
(* Posts are JavaScript objects: functions from field names to values.     *)
(***************************************************************************)
\* The store before anything was written: the file or key does not exist
Absent == [exists |-> FALSE, posts |-> << >>]
Stored(posts) == [exists |-> TRUE, posts |-> posts]

\* A response without a body
NoBody == << >>

INITIAL_POSTS ==
    << [id |-> 1, title |-> "Free Piano Lessons for Seniors", type |-> "Offer",
        author |-> "Sarah Chen", location |-> "Cambridge",
        description |-> "piano lessons", date |-> "2024-03-15",
        category |-> "Education"],
       [id |-> 2, title |-> "Community Garden Volunteers Needed", type |-> "Request",
        author |-> "Mike Johnson", location |-> "Boston",
        description |-> "garden volunteers", date |-> "2024-03-14",
        category |-> "Volunteering"],
       [id |-> 3, title |-> "Local Art Exhibition Space Available", type |-> "Offer",
        author |-> "Emma Davis", location |-> "Cambridge",
        description |-> "exhibition space", date |-> "2024-03-13",
        category |-> "Arts"] >>

\* { ...a, ...b }: the keys of both, b's value where both have the key
Spread(a, b) ==
    [k \in (DOMAIN a) \cup (DOMAIN b) |-> IF k \in DOMAIN b THEN b[k] ELSE a[k]]

\* Math.max(...posts.map(p => p.id))
RECURSIVE MaxIdOf(_)
MaxIdOf(posts) ==
    IF Len(posts) = 1 THEN posts[1].id
    ELSE LET m == MaxIdOf(Tail(posts))
         IN  IF posts[1].id > m THEN posts[1].id ELSE m

\* posts.length > 0 ? Math.max(...posts.map(p => p.id)) + 1 : 1
NextId_byLength(posts) == Len(posts) + 1
NextId(posts) == IF Len(posts) > 0 THEN MaxIdOf(posts) + 1 ELSE 1

\* posts.unshift(newPost)
Push(posts, p) == Append(posts, p)
Unshift(posts, p) == <<p>> \o posts

\* posts.findIndex(post => post.id === id), 0 standing for -1
FindIndex_byPosition(posts, id) == IF id \in 1..Len(posts) THEN id ELSE 0
FindIndex(posts, id) ==
    IF \E i \in 1..Len(posts) : posts[i].id = id
    THEN CHOOSE i \in 1..Len(posts) :
            /\ posts[i].id = id
            /\ \A j \in 1..(i - 1) : posts[j].id # id
    ELSE 0

\* posts.filter(post => post.id !== id)
FilterOut_greater(posts, id) == SelectSeq(posts, LAMBDA p : p.id > id)
FilterOut(posts, id) == SelectSeq(posts, LAMBDA p : p.id # id)

(***************************************************************************)
(* Storage.  A read or a write of the store ends in one of these ways.     *)
(***************************************************************************)
ReadOutcomes  == {"ok", "unavailable", "error"}
WriteOutcomes == {"ok", "failed"}

\* getPosts: the list it returns.
\*   "unavailable"  the Redis client could not be created: INITIAL_POSTS
\*   "error"        the read or the parse threw: the catch returns INITIAL_POSTS
\*   "ok"           the stored list, or INITIAL_POSTS when the store does not exist
GetPostsList_noSeed(st, r) ==
    IF r = "ok" /\ st.exists THEN st.posts ELSE << >>
GetPostsList(st, r) ==
    IF r = "ok" /\ st.exists THEN st.posts ELSE INITIAL_POSTS

\* getPosts: the store it leaves.  A store that does not exist is seeded with
\* INITIAL_POSTS before it is read (ensureDataDirExists / client.exists), which
\* happens unless the client was unavailable.
GetPostsStore(st, r) ==
    IF r # "unavailable" /\ ~st.exists THEN Stored(INITIAL_POSTS) ELSE st

\* savePosts: the store it leaves; a failed write is logged and swallowed.
SavePosts_skipped(st, posts, w) == st
SavePosts_truncated(st, posts, w) == IF w = "ok" THEN Stored(posts) ELSE Stored(<< >>)
SavePosts_prepended(st, posts, w) == Stored(<<posts[1]>> \o st.posts)
SavePosts(st, posts, w) == IF w = "ok" THEN Stored(posts) ELSE st

(***************************************************************************)
(* Inputs                                                                  *)
(***************************************************************************)
\* new Date().toISOString().split('T')[0]
Dates == {"2025-04-01"}

\* JSON bodies of POST /posts: the complete draft of the documented example, a
\* draft without a title, and a draft that carries an id and a date of its own
AmyBody ==
    [title |-> "Help moving", type |-> "Request", author |-> "Amy",
     location |-> "Boston", category |-> "Moving"]
NoTitleBody ==
    [type |-> "Offer", author |-> "Bo", location |-> "Cambridge", category |-> "Arts"]
ForgedBody ==
    [title |-> "Bike repair", type |-> "Offer", author |-> "Cy", location |-> "Boston",
     category |-> "Services", id |-> 1, date |-> "1999-12-31"]
Bodies == {AmyBody, NoTitleBody, ForgedBody}

\* The post fields a draft must carry
RequiredFields == {"title", "type", "author", "location", "category"}

\* Partial<Post> arguments of updatePost
Partials == { [title |-> "Edited"], [id |-> 2] }

\* ids passed to updatePost and deletePost
Ids == 1 .. (Len(INITIAL_POSTS) + MaxCreates)

Calls == {1, 2}

\* No createPost call is running
RaceIdle ==
    /\ pc = [p \in Calls |-> "idle"]
    /\ callData = [p \in Calls |-> << >>]
    /\ callPosts = [p \in Calls |-> << >>]
    /\ seen = [p \in Calls |-> 0]
    /\ nwrites = 0

\* an error value: a native exception has no type, hence type "undefined"
NoError == [name |-> "none", type |-> "undefined", details |-> {}]
NoResponse == [status |-> 0, body |-> << >>]

\* No /process-audio request is running
AudioIdle ==
    /\ apc = "idle"
    /\ areq = [key |-> TRUE, multipart |-> TRUE, audio |-> TRUE, type |-> "Offer"]
    /\ postType = ""
    /\ tempFilePath = FALSE
    /\ tempFile = FALSE
    /\ attempt = 0
    /\ lastError = NoError
    /\ llmLog = << >>
    /\ sent = << >>
    /\ unlinks = << >>
    /\ aresp = NoResponse

\* useState({ title: '', description: '', location: 'Boston', category: '', author: '' })
InitialForm ==
    [title |-> "", description |-> "", location |-> "Boston", category |-> "",
     author |-> ""]

\* the names a temp file can get: recording-${Date.now()}.wav
FileNames == 1..MaxClock

\* fs.readFile of a file that does not exist rejects with ENOENT
ENOENT == 0 - 1

\* No /process-audio request has arrived, the temp directory is empty
TempIdle ==
    /\ clock = 1
    /\ tempDir = [f \in FileNames |-> 0]
    /\ hpc = [p \in Calls |-> "idle"]
    /\ tempFilePaths = [p \in Calls |-> 0]
    /\ fileContent = [p \in Calls |-> 0]

\* the startRecording calls of the model
Recorders == 1..MaxRecorders

\* The widget as it is mounted
RecIdle ==
    /\ isRecording = FALSE
    /\ isProcessing = FALSE
    /\ mediaRecorderRef = 0
    /\ chunksRef = << >>
    /\ recorders = [n \in Recorders |-> "none"]
    /\ inFlight = {}
    /\ blobs = << >>

\* The form as it is mounted, no recording made
FormIdle ==
    /\ formData = InitialForm
    /\ filledFields = {}
    /\ nedits = 0
    /\ recordings = << >>

(***************************************************************************)
(* The post service, one operation per step (single writer)                *)
(***************************************************************************)
Init ==
    /\ store = Absent
    /\ resp = [op |-> "none", status |-> 0, body |-> NoBody]
    /\ created = << >>
    /\ fault = FALSE
    /\ faults = 0
    /\ mutations = 0
    /\ latest = [post |-> << >>, saved |-> FALSE, read |-> "ok"]
    /\ pure = TRUE
    /\ RaceIdle
    /\ AudioIdle
    /\ FormIdle
    /\ TempIdle
    /\ RecIdle

\* The storage outcomes the environment may still produce
Reads  == IF faults < MaxFaults THEN ReadOutcomes ELSE {"ok"}
Writes == IF faults < MaxFaults THEN WriteOutcomes ELSE {"ok"}

\* history: an operation whose read ended r and whose write, if any, ended w
Faulty(r, w) ==
    /\ fault' = (r # "ok" \/ w # "ok")
    /\ faults' = IF r # "ok" \/ w # "ok" THEN faults + 1 ELSE faults

\* createPost(postData): the post it returns, given the list getPosts returned
NewPost(posts, postData, today) ==
    Spread(postData, [id |-> NextId(posts), date |-> today])

\* GET /posts
GET_posts ==
    \E r \in Reads :
        /\ store' = GetPostsStore(store, r)
        /\ resp' = [op |-> "GET", status |-> 200, body |-> GetPostsList(store, r)]
        /\ Faulty(r, "ok")
        /\ pure' = FALSE
        /\ UNCHANGED <<created, mutations, latest>>
        /\ UNCHANGED <<raceVars, audioVars, formVars, tempVars, recVars>>

\* POST /posts with a body that parses: createPost(body), answered 201
POST_posts ==
    \E body \in Bodies, today \in Dates, r \in Reads, w \in Writes :
        /\ Len(created) < MaxCreates
        /\ LET posts   == GetPostsList(store, r)
               newPost == NewPost(posts, body, today)
           IN  /\ store' = SavePosts(GetPostsStore(store, r), Unshift(posts, newPost), w)
               /\ resp' = [op |-> "POST", status |-> 201, body |-> newPost]
               /\ created' = Append(created, newPost)
               /\ latest' = [post |-> <<newPost>>, saved |-> (w = "ok"), read |-> r]
        /\ Faulty(r, w)
        /\ UNCHANGED <<mutations, pure, raceVars, audioVars, formVars, tempVars, recVars>>

\* POST /posts whose request.json() throws: the catch answers 500
POST_posts_badJson ==
    /\ resp' = [op |-> "POST", status |-> 500, body |-> NoBody]
    /\ fault' = FALSE
    /\ pure' = FALSE
    /\ UNCHANGED <<store, created, faults, mutations, latest, raceVars, audioVars, formVars, tempVars, recVars>>

\* updatePost(id, postData); status 200 stands for the updated post, 404 for null
UpdatePost ==
    \E id \in Ids, postData \in Partials, r \in Reads, w \in Writes :
        /\ mutations < MaxMutations
        /\ LET posts == GetPostsList(store, r)
               index == FindIndex(posts, id)
           IN  IF index = 0
               THEN /\ store' = GetPostsStore(store, r)
                    /\ resp' = [op |-> "updatePost", status |-> 404, body |-> NoBody,
                                id |-> id]
                    /\ Faulty(r, "ok")
                    /\ UNCHANGED latest
               ELSE LET updatedPost == Spread(posts[index], postData)
                    IN  /\ store' = SavePosts(GetPostsStore(store, r),
                                              [posts EXCEPT ![index] = updatedPost], w)
                        /\ resp' = [op |-> "updatePost", status |-> 200,
                                    body |-> updatedPost, id |-> id]
                        /\ Faulty(r, w)
                        /\ latest' = [post |-> << >>, saved |-> FALSE, read |-> "ok"]
        /\ mutations' = mutations + 1
        /\ pure' = FALSE
        /\ UNCHANGED <<created, raceVars, audioVars, formVars, tempVars, recVars>>

\* deletePost(id); status 200 stands for true, 404 for false
DeletePost ==
    \E id \in Ids, r \in Reads, w \in Writes :
        /\ mutations < MaxMutations
        /\ LET posts         == GetPostsList(store, r)
               filteredPosts == FilterOut(posts, id)
           IN  IF Len(filteredPosts) = Len(posts)
               THEN /\ store' = GetPostsStore(store, r)
                    /\ resp' = [op |-> "deletePost", status |-> 404, body |-> NoBody,
                                id |-> id]
                    /\ Faulty(r, "ok")
                    /\ UNCHANGED latest
               ELSE /\ store' = SavePosts(GetPostsStore(store, r), filteredPosts, w)
                    /\ resp' = [op |-> "deletePost", status |-> 200, body |-> NoBody,
                                id |-> id]
                    /\ Faulty(r, w)
                    /\ latest' = [post |-> << >>, saved |-> FALSE, read |-> "ok"]
        /\ mutations' = mutations + 1
        /\ pure' = FALSE
        /\ UNCHANGED <<created, raceVars, audioVars, formVars, tempVars, recVars>>

Next ==
    \/ GET_posts
    \/ POST_posts
    \/ POST_posts_badJson
    \/ UpdatePost
    \/ DeletePost

Spec == Init /\ [][Next]_vars

(***************************************************************************)
(* The operations on one post: getPostById, updatePost and deletePost of   *)
(* the service, and the file-backed /posts/[id] route, on a store that     *)
(* holds the demo posts, or the demo posts but the first, or nothing yet.  *)
(***************************************************************************)
\* The id segment of the URL, a string
RouteParams == {"1", "2", "3", "4", "abc"}

\* NaN: a number that === no id
NaN == 0

\* parseInt(id)
Digits == <<"1", "2", "3", "4", "5", "6", "7", "8", "9">>
ParseInt(param) ==
    IF \E n \in 1..Len(Digits) : Digits[n] = param
    THEN CHOOSE n \in 1..Len(Digits) : Digits[n] = param
    ELSE NaN

\* The string param as the value of a post's id field: a string === no number,
\* and the id fields of the model are numbers, so the string "n" is written -n
IdString(param) == 0 - ParseInt(param)

\* readPosts of the route: the catch returns [] (the file is not seeded here)
ReadPosts(st, r) == IF r = "ok" /\ st.exists THEN st.posts ELSE << >>

\* writePosts of the route: a failed write is logged and swallowed
WritePosts(st, posts, w) == IF w = "ok" THEN Stored(posts) ELSE st

\* the file read of the route ends "ok" or "error"
FileReads == Reads \ {"unavailable"}

\* posts.find(post => post.id === id), as a list of at most one post
Find(posts, id) ==
    IF FindIndex(posts, id) = 0 THEN << >> ELSE <<posts[FindIndex(posts, id)]>>

InitById ==
    /\ store \in {Absent, Stored(INITIAL_POSTS), Stored(Tail(INITIAL_POSTS))}
    /\ resp = [op |-> "none", status |-> 0, body |-> NoBody]
    /\ created = << >>
    /\ fault = FALSE
    /\ faults = 0
    /\ mutations = 0
    /\ latest = [post |-> << >>, saved |-> FALSE, read |-> "ok"]
    /\ pure = TRUE
    /\ RaceIdle
    /\ AudioIdle
    /\ FormIdle
    /\ TempIdle
    /\ RecIdle

\* getPostById(id); status 200 stands for the post, 404 for null
GetPostById ==
    \E id \in Ids, r \in Reads :
        /\ LET found == Find(GetPostsList(store, r), id)
           IN  resp' = [op |-> "getPostById",
                        status |-> IF Len(found) = 0 THEN 404 ELSE 200,
                        body |-> found, id |-> id]
        /\ store' = GetPostsStore(store, r)
        /\ Faulty(r, "ok")
        /\ pure' = FALSE
        /\ UNCHANGED <<created, mutations, latest, raceVars, audioVars, formVars, tempVars, recVars>>

\* GET /posts/[id]
GET_posts_id ==
    \E param \in RouteParams, r \in FileReads :
        /\ LET found == Find(ReadPosts(store, r), ParseInt(param))
           IN  resp' = [op |-> "GET id",
                        status |-> IF Len(found) = 0 THEN 404 ELSE 200,
                        body |-> found, id |-> ParseInt(param)]
        /\ Faulty(r, "ok")
        /\ pure' = FALSE
        /\ UNCHANGED <<store, created, mutations, latest, raceVars, audioVars, formVars, tempVars, recVars>>

\* PUT /posts/[id]; a body that does not parse makes request.json() throw,
\* which nothing catches: 500
PUT_posts_id ==
    \E param \in RouteParams, r \in FileReads, w \in Writes, parses \in BOOLEAN,
       body \in Partials :
        /\ mutations < MaxMutations
        /\ LET posts     == ReadPosts(store, r)
               postIndex == FindIndex(posts, ParseInt(param))
           IN  IF postIndex = 0
               THEN /\ resp' = [op |-> "PUT id", status |-> 404, body |-> NoBody,
                                id |-> ParseInt(param)]
                    /\ Faulty(r, "ok")
                    /\ UNCHANGED store
               ELSE IF ~parses
               THEN /\ resp' = [op |-> "PUT id", status |-> 500, body |-> NoBody,
                                id |-> ParseInt(param)]
                    /\ Faulty(r, "ok")
                    /\ UNCHANGED store
               ELSE LET updatedPost ==
                            Spread(Spread(posts[postIndex], body),
                                   [id |-> IdString(param)])
                    IN  /\ store' = WritePosts(store,
                                               [posts EXCEPT ![postIndex] = updatedPost], w)
                        /\ resp' = [op |-> "PUT id", status |-> 200,
                                    body |-> updatedPost, id |-> ParseInt(param)]
                        /\ Faulty(r, w)
        /\ mutations' = mutations + 1
        /\ latest' = [post |-> << >>, saved |-> FALSE, read |-> "ok"]
        /\ pure' = FALSE
        /\ UNCHANGED <<created, raceVars, audioVars, formVars, tempVars, recVars>>

\* DELETE /posts/[id]
DELETE_posts_id ==
    \E param \in RouteParams, r \in FileReads, w \in Writes :
        /\ mutations < MaxMutations
        /\ LET posts         == ReadPosts(store, r)
               filteredPosts == FilterOut(posts, ParseInt(param))
           IN  IF Len(filteredPosts) = Len(posts)
               THEN /\ resp' = [op |-> "DELETE id", status |-> 404, body |-> NoBody,
                                id |-> ParseInt(param)]
                    /\ Faulty(r, "ok")
                    /\ UNCHANGED store
               ELSE /\ store' = WritePosts(store, filteredPosts, w)
                    /\ resp' = [op |-> "DELETE id", status |-> 200, body |-> NoBody,
                                id |-> ParseInt(param)]
                    /\ Faulty(r, w)
        /\ mutations' = mutations + 1
        /\ latest' = [post |-> << >>, saved |-> FALSE, read |-> "ok"]
        /\ pure' = FALSE
        /\ UNCHANGED <<created, raceVars, audioVars, formVars, tempVars, recVars>>

NextById ==
    \/ GetPostById
    \/ UpdatePost
    \/ DeletePost
    \/ GET_posts_id
    \/ PUT_posts_id
    \/ DELETE_posts_id

SpecById == InitById /\ [][NextById]_vars

(***************************************************************************)
(* createPost on any store: POST /posts over the service, and the          *)
(* file-backed POST /posts, on a store that holds nothing yet, an empty     *)
(* list, the demo posts, or the demo posts but the first.                  *)
(***************************************************************************)
\* readPosts of the file-backed /posts route: ensureDataDirExists() writes the
\* demo posts when the file does not exist, then the catch returns []
ReadPostsSeeded(st, r) ==
    IF r # "ok" THEN << >> ELSE IF st.exists THEN st.posts ELSE INITIAL_POSTS

\* ensureDataDirExists(): the store it leaves
EnsureDataDirExists(st) == IF st.exists THEN st ELSE Stored(INITIAL_POSTS)

InitCreate ==
    /\ store \in {Absent, Stored(<< >>), Stored(INITIAL_POSTS),
                  Stored(Tail(INITIAL_POSTS))}
    /\ resp = [op |-> "none", status |-> 0, body |-> NoBody]
    /\ created = << >>
    /\ fault = FALSE
    /\ faults = 0
    /\ mutations = 0
    /\ latest = [post |-> << >>, saved |-> FALSE, read |-> "ok"]
    /\ pure = TRUE
    /\ RaceIdle
    /\ AudioIdle
    /\ FormIdle
    /\ TempIdle
    /\ RecIdle

\* POST /posts of the file-backed route, with a body that parses
POST_posts_file ==
    \E body \in Bodies, today \in Dates, r \in FileReads, w \in Writes :
        /\ Len(created) < MaxCreates
        /\ LET posts   == ReadPostsSeeded(store, r)
               newPost == NewPost(posts, body, today)
           IN  /\ store' = WritePosts(EnsureDataDirExists(store),
                                      Unshift(posts, newPost), w)
               /\ resp' = [op |-> "POST file", status |-> 201, body |-> newPost]
               /\ created' = Append(created, newPost)
               /\ latest' = [post |-> <<newPost>>, saved |-> (w = "ok"), read |-> r]
        /\ Faulty(r, w)
        /\ UNCHANGED <<mutations, pure, raceVars, audioVars, formVars, tempVars, recVars>>

NextCreate ==
    \/ POST_posts
    \/ POST_posts_file

SpecCreate == InitCreate /\ [][NextCreate]_vars

(***************************************************************************)
(* Sequences of createPost and deletePost calls of one writer               *)
(***************************************************************************)
NextCreateDelete ==
    \/ POST_posts
    \/ DeletePost

SpecCreateDelete == InitCreate /\ [][NextCreateDelete]_vars

(***************************************************************************)
(* createPost, one step per await, for two calls in flight together.       *)
(* getPosts: await client.exists, then await client.set (seeding) or       *)
(* await client.get; createPost: await savePosts.  Storage works here.     *)
(***************************************************************************)
InitRace ==
    /\ store \in {Absent, Stored(INITIAL_POSTS)}
    /\ resp = [op |-> "none", status |-> 0, body |-> NoBody]
    /\ created = << >>
    /\ fault = FALSE
    /\ faults = 0
    /\ mutations = 0
    /\ latest = [post |-> << >>, saved |-> FALSE, read |-> "ok"]
    /\ pure = TRUE
    /\ RaceIdle
    /\ AudioIdle
    /\ FormIdle
    /\ TempIdle
    /\ RecIdle

\* createPost(postData) is called: getPosts starts, client.exists is awaited
Call(p) ==
    \E body \in Bodies :
        /\ pc[p] = "idle"
        /\ pc' = [pc EXCEPT ![p] = "exists"]
        /\ callData' = [callData EXCEPT ![p] = body]
        /\ UNCHANGED <<storeVars, audioVars, formVars, tempVars, recVars, callPosts, seen, nwrites>>

\* const postsExist = await client.exists(POSTS_KEY)
Exists(p) ==
    /\ pc[p] = "exists"
    /\ pc' = [pc EXCEPT ![p] = IF store.exists THEN "get" ELSE "seed"]
    /\ UNCHANGED <<storeVars, audioVars, formVars, tempVars, recVars, callData, callPosts, seen, nwrites>>

\* the list getPosts returned, with the new post unshifted
WithNewPost(list, body, today) == Unshift(list, NewPost(list, body, today))

\* await client.set(POSTS_KEY, INITIAL_POSTS); return [...INITIAL_POSTS]
Seed(p) ==
    \E today \in Dates :
        /\ pc[p] = "seed"
        /\ store' = Stored(INITIAL_POSTS)
        /\ callPosts' = [callPosts EXCEPT ![p] = WithNewPost(INITIAL_POSTS, callData[p], today)]
        /\ seen' = [seen EXCEPT ![p] = nwrites]
        /\ pc' = [pc EXCEPT ![p] = "save"]
        /\ UNCHANGED <<resp, created, fault, faults, mutations, latest, pure>>
        /\ UNCHANGED <<callData, nwrites>>
        /\ UNCHANGED <<audioVars, formVars, tempVars, recVars>>

\* const postsJson = await client.get(POSTS_KEY); return JSON.parse(postsJson)
Get(p) ==
    \E today \in Dates :
        /\ pc[p] = "get"
        /\ callPosts' = [callPosts EXCEPT ![p] =
                        WithNewPost(GetPostsList(store, "ok"), callData[p], today)]
        /\ seen' = [seen EXCEPT ![p] = nwrites]
        /\ pc' = [pc EXCEPT ![p] = "save"]
        /\ UNCHANGED <<storeVars, audioVars, formVars, tempVars, recVars, callData, nwrites>>

\* await savePosts(posts); return newPost
Save(p) ==
    /\ pc[p] = "save"
    /\ store' = SavePosts(store, callPosts[p], "ok")
    /\ nwrites' = nwrites + 1
    /\ pc' = [pc EXCEPT ![p] = "done"]
    /\ UNCHANGED <<resp, created, fault, faults, mutations, latest, pure>>
    /\ UNCHANGED <<callData, callPosts, seen>>
    /\ UNCHANGED <<audioVars, formVars, tempVars, recVars>>

NextRace == \E p \in Calls : Call(p) \/ Exists(p) \/ Seed(p) \/ Get(p) \/ Save(p)

SpecRace == InitRace /\ [][NextRace]_vars

(***************************************************************************)
(* POST /process-audio: transcription, then extraction with retries        *)
(***************************************************************************)
ErrorTypes ==
    [INSUFFICIENT_INFO |-> "INSUFFICIENT_INFO", INVALID_FORMAT |-> "INVALID_FORMAT",
     SERVER_ERROR |-> "SERVER_ERROR", API_ERROR |-> "API_ERROR"]

\* maxRetries = 3
maxRetries_four == 3 + 1
maxRetries == 3

\* JSON values of the language model's reply
JStr(x) == [t |-> "string", s |-> x, a |-> << >>]
JNum(x) == [t |-> "number", s |-> x, a |-> << >>]
JNull   == [t |-> "null", s |-> "null", a |-> << >>]
JArr(x) == [t |-> "array", s |-> "", a |-> x]

\* The fields of PostSchema other than type
ContentFields == {"title", "description", "location", "category", "author"}

\* Replies of groq.chat.completions.create:
\*   throws     the call rejects (network, API error)
\*   malformed  the content is not JSON
\*   null       the content is the JSON text null
\*   empty      the content is null or "", replaced by '{}'
\*   object     the content is a JSON object
O_full ==
    [title |-> JStr("Piano lessons"), category |-> JStr("Education"),
     location |-> JStr("Boston"), author |-> JStr("Amy"), description |-> JStr(""),
     missing_fields |-> JArr(<< >>)]
O_typed ==
    [title |-> JStr("Bike"), type |-> JStr("Banana"), note |-> JStr("x")]
O_kind ==
    [title |-> JStr("Desk"), type |-> JStr("Offer")]
O_missing ==
    [title |-> JStr(""), category |-> JStr(""), missing_fields |-> JArr(<<"title">>)]
O_number ==
    [title |-> JNum("42"), category |-> JStr("Arts"), missing_fields |-> JArr(<< >>)]
O_nulls ==
    [title |-> JStr("Sofa"), author |-> JNull, location |-> JNull,
     missing_fields |-> JArr(<<"author">>)]

Reply(kind, obj) == [kind |-> kind, obj |-> obj]
LlmReplies ==
    { Reply("throws", << >>), Reply("malformed", << >>), Reply("null", << >>),
      Reply("empty", << >>) }
    \cup { Reply("object", o) : o \in {O_full, O_typed, O_kind, O_missing, O_number, O_nulls} }

\* const { missing_fields, ...dataToValidate } = parsedData;
\* '' becomes undefined; dataToValidate.type = postType
\* (an undefined value is a key left out)
DataToValidate_modelType(obj, type) ==
    LET keys == { k \in (DOMAIN obj) \ {"missing_fields"} :
                    ~(obj[k].t = "string" /\ obj[k].s = "") }
    IN  [k \in keys \cup {"type"} |-> IF k \in keys THEN obj[k] ELSE JStr(type)]
DataToValidate_descriptionOnly(obj, type) ==
    LET keys == { k \in (DOMAIN obj) \ {"missing_fields", "type"} :
                    ~(k = "description" /\ obj[k].t = "string" /\ obj[k].s = "") }
    IN  [k \in keys \cup {"type"} |-> IF k = "type" THEN JStr(type) ELSE obj[k]]
DataToValidate(obj, type) ==
    LET keys == { k \in (DOMAIN obj) \ {"missing_fields", "type"} :
                    ~(obj[k].t = "string" /\ obj[k].s = "") }
    IN  [k \in keys \cup {"type"} |-> IF k = "type" THEN JStr(type) ELSE obj[k]]

\* PostSchema: the issues of ZodError.errors, as the paths that fail
SchemaIssues(data) ==
    { k \in ContentFields \cap DOMAIN data : data[k].t # "string" }
    \cup (IF data["type"].t = "string" /\ data["type"].s \in {"Offer", "Request"}
          THEN {} ELSE {"type"})

\* PostSchema.parse(data) of data without issues: the known keys, unknown keys stripped
SchemaOutput(data) ==
    [k \in (ContentFields \cup {"type"}) \cap DOMAIN data |-> data[k].s]

\* One pass through the try block: how it ends, [name, type, details, data];
\* name "ok" is the return of PostSchema.parse
AttemptEnd(reply, type) ==
    IF reply.kind = "throws"
    THEN [name |-> "APIConnectionError", type |-> "undefined", details |-> {}, data |-> << >>]
    ELSE IF reply.kind = "malformed"
    THEN [name |-> "SyntaxError", type |-> "undefined", details |-> {}, data |-> << >>]
    ELSE IF reply.kind = "null"
    THEN [name |-> "TypeError", type |-> "undefined", details |-> {}, data |-> << >>]
    ELSE LET obj  == IF reply.kind = "empty" THEN << >> ELSE reply.obj
             data == DataToValidate(obj, type)
         IN  IF SchemaIssues(data) # {}
             THEN [name |-> "ZodError", type |-> "undefined",
                   details |-> SchemaIssues(data), data |-> << >>]
             ELSE [name |-> "ok", type |-> "undefined", details |-> {},
                   data |-> SchemaOutput(data)]

ErrorOf(end) == [name |-> end.name, type |-> end.type, details |-> end.details]

\* The catch block on the last attempt: what processTranscriptionWithRetries throws
Thrown_anyInvalidFormat(error) ==
    [name |-> "CustomError", type |-> ErrorTypes.INVALID_FORMAT, details |-> error.details]
Thrown(error) ==
    IF error.name = "ZodError"
    THEN [name |-> "CustomError", type |-> ErrorTypes.INVALID_FORMAT,
          details |-> error.details]
    ELSE error

\* The inner catch of POST: the response for a thrown error
ErrorResponse_generic(error) ==
    [status |-> 500,
     body |-> [error |-> "Failed to process audio with Groq API",
               type |-> ErrorTypes.SERVER_ERROR]]
ErrorResponse(error) ==
    IF error.type = ErrorTypes.INVALID_FORMAT
    THEN [status |-> 422,
          body |-> [error |-> "The extracted data does not match the required format",
                    type |-> error.type, details |-> error.details]]
    ELSE IF error.type = ErrorTypes.API_ERROR
    THEN [status |-> 500,
          body |-> [error |-> "Transcription failed", type |-> error.type]]
    ELSE [status |-> 500,
          body |-> [error |-> "Failed to process audio with Groq API",
                    type |-> ErrorTypes.SERVER_ERROR]]

\* return NextResponse.json(validatedData)
SuccessResponse_unlessError(data, error) ==
    IF error.name = "none" THEN [status |-> 200, body |-> data] ELSE ErrorResponse(error)
SuccessResponse(data, error) == [status |-> 200, body |-> data]

\* The outer catch of POST
OuterErrorResponse ==
    [status |-> 500,
     body |-> [error |-> "An error occurred while processing the audio",
               type |-> ErrorTypes.SERVER_ERROR]]

Requests ==
    [key : BOOLEAN, multipart : BOOLEAN, audio : BOOLEAN,
     type : {"Offer", "Request", "", "Wanted"}]

TranscriptionOutcomes == {"readFails", "throws", "notOk", "empty", "blank", "text"}

InitAudio ==
    /\ store = Absent
    /\ resp = [op |-> "none", status |-> 0, body |-> NoBody]
    /\ created = << >>
    /\ fault = FALSE
    /\ faults = 0
    /\ mutations = 0
    /\ latest = [post |-> << >>, saved |-> FALSE, read |-> "ok"]
    /\ pure = TRUE
    /\ RaceIdle
    /\ apc = "start"
    /\ areq \in Requests
    /\ postType = ""
    /\ tempFilePath = FALSE
    /\ tempFile = FALSE
    /\ attempt = 0
    /\ lastError = NoError
    /\ llmLog = << >>
    /\ sent = << >>
    /\ unlinks = << >>
    /\ aresp = NoResponse
    /\ FormIdle
    /\ TempIdle
    /\ RecIdle

\* A response is returned from inside the try: the finally block runs next
Return(r) ==
    /\ aresp' = r
    /\ apc' = "cleanup"

\* fs.writeFile(tempFilePath, ...): it writes the file, or fails without
\* creating it, or fails after creating it
WriteFileOutcomes == {"ok", "failed", "partial"}

\* formData.get('type') as string || 'Offer'
PostTypeOf(type) == IF type = "" THEN "Offer" ELSE type

\* the negation of postType !== 'Offer' && postType !== 'Request'
ValidPostType_any(type) == TRUE
ValidPostType(type) == type = "Offer" \/ type = "Request"

\* process.env.GROQ_API_KEY is set
KeyConfigured_unchecked(req) == TRUE
KeyConfigured(req) == req.key

\* Without the key: new Groq({apiKey: undefined}) throws when the variable is
\* not set (outer catch), and the check that follows answers when it is ''
NoKeyResponses ==
    { [status |-> 500,
       body |-> [error |-> "Groq API key is not configured on the server",
                 type |-> ErrorTypes.SERVER_ERROR]],
      OuterErrorResponse }

\* From the start of POST to the temp file: the API key check, the form data,
\* the post type, the audio file, fs.writeFile
Receive ==
    /\ apc = "start"
    /\ LET type == PostTypeOf(areq.type)
       IN  IF ~KeyConfigured(areq)
           THEN /\ \E r \in NoKeyResponses : Return(r)
                /\ UNCHANGED <<postType, tempFilePath, tempFile>>
           ELSE IF ~areq.multipart
           THEN /\ Return(OuterErrorResponse)
                /\ UNCHANGED <<postType, tempFilePath, tempFile>>
           ELSE IF ~ValidPostType(type)
           THEN /\ Return([status |-> 400,
                           body |-> [error |-> "Invalid post type. Must be \"Offer\" or \"Request\"",
                                     type |-> ErrorTypes.SERVER_ERROR]])
                /\ postType' = type
                /\ UNCHANGED <<tempFilePath, tempFile>>
           ELSE IF ~areq.audio
           THEN /\ Return([status |-> 400,
                           body |-> [error |-> "No audio file provided",
                                     type |-> ErrorTypes.SERVER_ERROR]])
                /\ postType' = type
                /\ UNCHANGED <<tempFilePath, tempFile>>
           ELSE /\ postType' = type
                /\ tempFilePath' = TRUE
                /\ \E written \in WriteFileOutcomes :
                      IF written = "ok"
                      THEN /\ tempFile' = TRUE
                           /\ apc' = "transcribe"
                           /\ UNCHANGED aresp
                      ELSE /\ Return(OuterErrorResponse)
                           /\ tempFile' = (written = "partial")
    /\ UNCHANGED <<storeVars, raceVars, formVars, tempVars, recVars, areq, attempt, lastError, llmLog, sent, unlinks>>

\* The transcription outcomes in which the fetch call was made
RequestSent == TranscriptionOutcomes \ {"readFails"}

\* The response of the try block around the transcription for each outcome
\* but "text":
\*   readFails  fs.readFile throws            (inner catch, no type)
\*   throws     fetch or text() throws        (inner catch, no type)
\*   notOk      the service answers non-OK    (inner catch, type API_ERROR)
\*   empty      the transcript is ''
\*   blank      the transcript is whitespace
TranscriptionResponse(t) ==
    IF t \in {"empty", "blank"}
    THEN [status |-> 422,
          body |-> [error |-> "No speech detected in the audio",
                    type |-> ErrorTypes.API_ERROR]]
    ELSE IF t = "notOk"
    THEN ErrorResponse([name |-> "CustomError", type |-> ErrorTypes.API_ERROR,
                        details |-> {}])
    ELSE ErrorResponse([name |-> "Error", type |-> "undefined", details |-> {}])

\* fs.readFile, the transcription request, the empty-transcript check
Transcribe ==
    /\ apc = "transcribe"
    /\ \E t \in TranscriptionOutcomes :
          /\ sent' = IF t \in RequestSent THEN Append(sent, t) ELSE sent
          /\ IF t = "text"
             THEN /\ apc' = "extract"
                  /\ attempt' = 1
                  /\ UNCHANGED aresp
             ELSE /\ UNCHANGED attempt
                  /\ Return(TranscriptionResponse(t))
    /\ UNCHANGED <<storeVars, raceVars, formVars, tempVars, recVars, areq, postType, tempFilePath, tempFile,
                   lastError, llmLog, unlinks>>

\* One iteration of the loop of processTranscriptionWithRetries, and on its
\* return or throw the rest of POST up to the response
Attempt ==
    /\ apc = "extract"
    /\ attempt <= maxRetries
    /\ \E reply \in LlmReplies :
          LET end == AttemptEnd(reply, postType)
          IN  /\ llmLog' = Append(llmLog, [reply |-> reply, end |-> end.name,
                                           details |-> end.details])
              /\ IF end.name = "ok"
                 THEN /\ Return(SuccessResponse(end.data, lastError))
                      /\ UNCHANGED <<attempt, lastError>>
                 ELSE /\ lastError' = ErrorOf(end)
                      /\ IF attempt = maxRetries
                         THEN /\ Return(ErrorResponse(Thrown(ErrorOf(end))))
                              /\ UNCHANGED attempt
                         ELSE /\ attempt' = attempt + 1
                              /\ UNCHANGED <<apc, aresp>>
    /\ UNCHANGED <<storeVars, raceVars, formVars, tempVars, recVars, areq, postType, tempFilePath, tempFile,
                   sent, unlinks>>

\* fs.unlink(tempFilePath): whether the file exists afterwards
Unlink_skipped(file, ok) == file
Unlink(file, ok) == file /\ ~ok

\* finally: fs.unlink(tempFilePath) when tempFilePath is set; a failing unlink
\* is caught and logged.  The unlink of a file that does not exist fails.
Cleanup ==
    /\ apc = "cleanup"
    /\ apc' = "done"
    /\ IF tempFilePath
       THEN \E ok \in (IF tempFile THEN BOOLEAN ELSE {FALSE}) :
                /\ tempFile' = Unlink(tempFile, ok)
                /\ unlinks' = Append(unlinks, ok)
       ELSE UNCHANGED <<tempFile, unlinks>>
    /\ UNCHANGED <<storeVars, raceVars, formVars, tempVars, recVars, areq, postType, tempFilePath, attempt,
                   lastError, llmLog, sent, aresp>>

NextAudio ==
    \/ Receive
    \/ Transcribe
    \/ Attempt
    \/ Cleanup

SpecAudio == InitAudio /\ [][NextAudio]_vars

(***************************************************************************)
(* The creation form and its voice-recording widget                        *)
(***************************************************************************)
FormFields == {"title", "description", "location", "category", "author"}

\* What the user types into a field
TypedValues == {"", "typed"}

\* The 200 bodies of /process-audio: the outputs of the schema for the replies
\* that pass it, and a body of the earlier handler, which drops only an empty
\* description and lets other empty strings through
R_emptyAuthor == [type |-> "Offer", title |-> "Sofa", author |-> ""]
ResponseData ==
    { SchemaOutput(DataToValidate(o, "Offer")) : o \in {O_full, O_typed, O_missing} }
    \cup {R_emptyAuthor}

\* Object.keys(data).filter(key => data[key] !== undefined && data[key] !== ''
\*                                 && key !== 'type')
MeaningfulFields(data) == { k \in DOMAIN data : data[k] # "" /\ k # "type" }

\* (prevData) => { const result = { ...prevData };
\*                 meaningfulFields.forEach(key => { result[key] = data[key]; });
\*                 return result; }
MergeCallback(prevData, data) ==
    [k \in (DOMAIN prevData) \cup MeaningfulFields(data) |->
        IF k \in MeaningfulFields(data) THEN data[k] ELSE prevData[k]]

\* undefined, among the strings
Undefined == "undefined"

\* data.title, data.description, ... of the argument of handleAudioProcessed: an
\* object has the properties it has, a function has none of these
Prop(arg, k) ==
    IF arg.kind = "object" /\ k \in DOMAIN arg.data THEN arg.data[k] ELSE Undefined

\* v || d
Or(v, d) == IF v = Undefined \/ v = "" THEN d ELSE v

\* handleAudioProcessed(data) of PostOffer: the form it sets
HandleAudioProcessed(arg) ==
    [title       |-> Or(Prop(arg, "title"), ""),
     description |-> Or(Prop(arg, "description"), ""),
     location    |-> Or(Prop(arg, "location"), "Boston"),
     category    |-> Or(Prop(arg, "category"), ""),
     author      |-> Or(Prop(arg, "author"), "")]

InitForm ==
    /\ store = Absent
    /\ resp = [op |-> "none", status |-> 0, body |-> NoBody]
    /\ created = << >>
    /\ fault = FALSE
    /\ faults = 0
    /\ mutations = 0
    /\ latest = [post |-> << >>, saved |-> FALSE, read |-> "ok"]
    /\ pure = TRUE
    /\ RaceIdle
    /\ AudioIdle
    /\ FormIdle
    /\ TempIdle
    /\ RecIdle

\* handleChange: setFormData(prev => ({ ...prev, [name]: value }))
HandleChange ==
    \E name \in FormFields, value \in TypedValues :
        /\ nedits < MaxEdits
        /\ formData' = Spread(formData, [k \in {name} |-> value])
        /\ nedits' = nedits + 1
        /\ UNCHANGED <<filledFields, recordings>>
        /\ UNCHANGED <<storeVars, raceVars, audioVars, tempVars, recVars>>

\* processAudio of the widget, answered 200: it sets filledFields and calls
\* onAudioProcessed with the merging callback, which handleAudioProcessed
\* reads as if it were the data
ProcessAudio ==
    \E data \in ResponseData :
        /\ Len(recordings) < MaxRecordings
        /\ filledFields' = MeaningfulFields(data)
        /\ LET callback == [prevData \in {formData} |-> MergeCallback(prevData, data)]
           IN  formData' = HandleAudioProcessed([kind |-> "function", fn |-> callback])
        /\ recordings' = Append(recordings,
                                [before |-> formData, data |-> data, widget |-> "callback"])
        /\ UNCHANGED nedits
        /\ UNCHANGED <<storeVars, raceVars, audioVars, tempVars, recVars>>

\* processAudio of the earlier widget, answered 200: onAudioProcessed(data)
ProcessAudio_earlier ==
    \E data \in ResponseData :
        /\ Len(recordings) < MaxRecordings
        /\ formData' = HandleAudioProcessed([kind |-> "object", data |-> data])
        /\ recordings' = Append(recordings,
                                [before |-> formData, data |-> data, widget |-> "data"])
        /\ UNCHANGED <<filledFields, nedits>>
        /\ UNCHANGED <<storeVars, raceVars, audioVars, tempVars, recVars>>

NextForm ==
    \/ HandleChange
    \/ ProcessAudio
    \/ ProcessAudio_earlier

SpecForm == InitForm /\ [][NextForm]_vars

(***************************************************************************)
(* Two POST /process-audio requests handled together, one step per await   *)
(* that touches the temp file.  Request p uploads the audio bytes p.       *)
(***************************************************************************)
InitTemp ==
    /\ store = Absent
    /\ resp = [op |-> "none", status |-> 0, body |-> NoBody]
    /\ created = << >>
    /\ fault = FALSE
    /\ faults = 0
    /\ mutations = 0
    /\ latest = [post |-> << >>, saved |-> FALSE, read |-> "ok"]
    /\ pure = TRUE
    /\ RaceIdle
    /\ AudioIdle
    /\ FormIdle
    /\ TempIdle
    /\ RecIdle

\* the clock advances by a millisecond
Tick ==
    /\ clock < MaxClock
    /\ clock' = clock + 1
    /\ UNCHANGED <<tempDir, hpc, tempFilePaths, fileContent>>
    /\ UNCHANGED <<storeVars, raceVars, audioVars, formVars, recVars>>

\* tempFilePath = path.join(tempDir, `recording-${Date.now()}.wav`);
\* await audioFile.arrayBuffer()
TempFilePath(p) ==
    /\ hpc[p] = "idle"
    /\ tempFilePaths' = [tempFilePaths EXCEPT ![p] = clock]
    /\ hpc' = [hpc EXCEPT ![p] = "write"]
    /\ UNCHANGED <<clock, tempDir, fileContent>>
    /\ UNCHANGED <<storeVars, raceVars, audioVars, formVars, recVars>>

\* await fs.writeFile(tempFilePath, Buffer.from(audioBuffer)): the file is
\* created or replaced
WriteFile(p) ==
    /\ hpc[p] = "write"
    /\ tempDir' = [tempDir EXCEPT ![tempFilePaths[p]] = p]
    /\ hpc' = [hpc EXCEPT ![p] = "read"]
    /\ UNCHANGED <<clock, tempFilePaths, fileContent>>
    /\ UNCHANGED <<storeVars, raceVars, audioVars, formVars, recVars>>

\* const fileContent = await fs.readFile(tempFilePath), and from there the
\* transcription and the extraction, up to the finally block
ReadFile(p) ==
    /\ hpc[p] = "read"
    /\ fileContent' = [fileContent EXCEPT ![p] =
                          IF tempDir[tempFilePaths[p]] = 0 THEN ENOENT
                          ELSE tempDir[tempFilePaths[p]]]
    /\ hpc' = [hpc EXCEPT ![p] = "finally"]
    /\ UNCHANGED <<clock, tempDir, tempFilePaths>>
    /\ UNCHANGED <<storeVars, raceVars, audioVars, formVars, recVars>>

\* finally: await fs.unlink(tempFilePath); an unlink that fails is logged
Finally(p) ==
    /\ hpc[p] = "finally"
    /\ tempDir' = [tempDir EXCEPT ![tempFilePaths[p]] = 0]
    /\ hpc' = [hpc EXCEPT ![p] = "done"]
    /\ UNCHANGED <<clock, tempFilePaths, fileContent>>
    /\ UNCHANGED <<storeVars, raceVars, audioVars, formVars, recVars>>

NextTemp ==
    \/ Tick
    \/ \E p \in Calls : TempFilePath(p) \/ WriteFile(p) \/ ReadFile(p) \/ Finally(p)

SpecTemp == InitTemp /\ [][NextTemp]_vars

(***************************************************************************)
(* The voice-recording widget: clicks on the microphone button, the         *)
(* getUserMedia promise, the recorder's stop event, the end of processAudio *)
(***************************************************************************)
InitRecorder ==
    /\ store = Absent
    /\ resp = [op |-> "none", status |-> 0, body |-> NoBody]
    /\ created = << >>
    /\ fault = FALSE
    /\ faults = 0
    /\ mutations = 0
    /\ latest = [post |-> << >>, saved |-> FALSE, read |-> "ok"]
    /\ pure = TRUE
    /\ RaceIdle
    /\ AudioIdle
    /\ FormIdle
    /\ TempIdle
    /\ RecIdle

\* renderMicrophoneButton: the start button is rendered when !isRecording and
\* it is disabled while isProcessing
StartEnabled == ~isRecording /\ ~isProcessing

\* A click on the start button: startRecording runs up to
\* await navigator.mediaDevices.getUserMedia({ audio: true })
StartRecording ==
    \E n \in Recorders :
        /\ StartEnabled
        /\ recorders[n] = "none"
        /\ \A m \in Recorders : m < n => recorders[m] # "none"
        /\ recorders' = [recorders EXCEPT ![n] = "getUserMedia"]
        /\ UNCHANGED <<isRecording, isProcessing, mediaRecorderRef, chunksRef, inFlight, blobs>>
        /\ UNCHANGED <<storeVars, raceVars, audioVars, formVars, tempVars>>

\* getUserMedia resolves: mediaRecorderRef.current = mediaRecorder;
\* chunksRef.current = []; mediaRecorder.start(); setIsRecording(true).
\* Or it rejects and the catch sets the error.
GetUserMedia(n) ==
    /\ recorders[n] = "getUserMedia"
    /\ \/ /\ recorders' = [recorders EXCEPT ![n] = "recording"]
          /\ mediaRecorderRef' = n
          /\ chunksRef' = << >>
          /\ isRecording' = TRUE
       \/ /\ recorders' = [recorders EXCEPT ![n] = "failed"]
          /\ UNCHANGED <<mediaRecorderRef, chunksRef, isRecording>>
    /\ UNCHANGED <<isProcessing, inFlight, blobs>>
    /\ UNCHANGED <<storeVars, raceVars, audioVars, formVars, tempVars>>

\* A click on the stop button, rendered when isRecording: stopRecording calls
\* mediaRecorderRef.current.stop(), which throws on a recorder that is not
\* recording (caught), and setIsRecording(false).  stop() fires the recorder's
\* dataavailable and stop events in a later task.
StopRecording ==
    /\ isRecording
    /\ mediaRecorderRef # 0
    /\ recorders' = IF recorders[mediaRecorderRef] = "recording"
                    THEN [recorders EXCEPT ![mediaRecorderRef] = "stopping"]
                    ELSE recorders
    /\ isRecording' = FALSE
    /\ UNCHANGED <<isProcessing, mediaRecorderRef, chunksRef, inFlight, blobs>>
    /\ UNCHANGED <<storeVars, raceVars, audioVars, formVars, tempVars>>

\* The task of recorder n's stop: ondataavailable pushes the recorded data to
\* chunksRef.current, onstop builds the blob from chunksRef.current and calls
\* processAudio, which runs up to its await fetch: setIsProcessing(true)
OnStop(n) ==
    /\ recorders[n] = "stopping"
    /\ LET chunks == Append(chunksRef, n)
       IN  /\ chunksRef' = chunks
           /\ blobs' = Append(blobs, [rec |-> n, chunks |-> chunks])
    /\ recorders' = [recorders EXCEPT ![n] = "inactive"]
    /\ isProcessing' = TRUE
    /\ inFlight' = inFlight \cup {n}
    /\ UNCHANGED <<isRecording, mediaRecorderRef>>
    /\ UNCHANGED <<storeVars, raceVars, audioVars, formVars, tempVars>>

\* The request of recording n is answered (or fetch rejects): the finally of
\* processAudio, setIsProcessing(false)
ProcessAudioFinally(n) ==
    /\ n \in inFlight
    /\ inFlight' = inFlight \ {n}
    /\ isProcessing' = FALSE
    /\ UNCHANGED <<isRecording, mediaRecorderRef, chunksRef, recorders, blobs>>
    /\ UNCHANGED <<storeVars, raceVars, audioVars, formVars, tempVars>>

NextRecorder ==
    \/ StartRecording
    \/ StopRecording
    \/ \E n \in Recorders : GetUserMedia(n) \/ OnStop(n) \/ ProcessAudioFinally(n)

SpecRecorder == InitRecorder /\ [][NextRecorder]_vars

(***************************************************************************)
(* Properties of the post service                                          *)
(***************************************************************************)
Reverse(s) == [i \in 1..Len(s) |-> s[Len(s) + 1 - i]]

\* a is b with some of its elements left out
RECURSIVE IsSubseq(_, _)
IsSubseq(a, b) ==
    IF Len(a) = 0 THEN TRUE
    ELSE IF Len(b) = 0 THEN FALSE
    ELSE IF a[1] = b[1] THEN IsSubseq(Tail(a), Tail(b)) \/ IsSubseq(a, Tail(b))
    ELSE IsSubseq(a, Tail(b))

\* the post list of a store: what is persisted, the demo posts before anything is
IdsOf(posts) == { posts[i].id : i \in 1..Len(posts) }
ListOf(st) == IF st.exists THEN st.posts ELSE INITIAL_POSTS

NoDuplicateIds(posts) ==
    \A i, j \in 1..Len(posts) : i # j => posts[i].id # posts[j].id

\* C1: no two posts of the persisted list have the same id, whatever createPost,
\* updatePost (with any partial) and deletePost calls a single writer has made.
C1_UniqueIds == store.exists => NoDuplicateIds(store.posts)

\* C2 as stated: the k-th createPost of a run of createPost calls and nothing
\* else against the initial store returns the id k.
C2_IdsOneToN ==
    pure => \A k \in 1..Len(created) : created[k].id = k

\* C2 amended: with storage that works, the k-th createPost of such a run returns
\* the largest id of the demo posts plus k, so the ids are strictly increasing and
\* pairwise distinct, and they start after the ids of the demo posts.
C2_IdsFollowSeed ==
    (mutations = 0 /\ faults = 0) =>
        /\ \A k \in 1..Len(created) : created[k].id = MaxIdOf(INITIAL_POSTS) + k
        /\ \A i, j \in 1..Len(created) : i < j => created[i].id < created[j].id

C2_Witness ==
    /\ pure
    /\ faults = 0
    /\ Len(created) = MaxCreates
    /\ store.exists /\ Len(store.posts) = Len(INITIAL_POSTS) + MaxCreates

C5_CreatedIsFirst ==
    (resp.op = "GET" /\ Len(latest.post) = 1) =>
        /\ Len(resp.body) > 0
        /\ resp.body[1] = latest.post[1]

\* C5 amended: the same, provided the storage write of that createPost and the
\* storage read of the GET succeeded; and every 201 carries an assigned id and
\* today's date.
C5_SavedIsFirst ==
    /\ (resp.op = "GET" /\ ~fault /\ Len(latest.post) = 1 /\ latest.saved) =>
            /\ Len(resp.body) > 0
            /\ resp.body[1] = latest.post[1]
    /\ (resp.op = "POST" /\ resp.status = 201) =>
            /\ resp.body.id \in Nat \ {0}
            /\ resp.body.date \in Dates

C5_Witness ==
    /\ resp.op = "GET"
    /\ ~fault
    /\ Len(latest.post) = 1
    /\ latest.saved
    /\ latest.post[1].author = "Amy"
    /\ resp.body[1] = latest.post[1]

\* C6: POST /posts never answers 201 to a body that lacks a required field
\* (the answered post carries every field of the body it was created from).
C6_RequiredFieldsValidated ==
    (resp.op = "POST" /\ resp.status = 201) => RequiredFields \subseteq DOMAIN resp.body

\* the fields a created post can carry
PostFields == RequiredFields \cup {"description", "id", "date"}

\* C18: when the storage write of createPost fails, createPost still returns the
\* new post, numbered and dated like any other, and POST /posts answers 201 with
\* it, while the persisted list is what it was before the call.
C18_WriteFailureSwallowed ==
    [][ (resp'.op = "POST" /\ resp'.status = 201 /\ ~latest'.saved) =>
            /\ created' = Append(created, resp'.body)
            /\ DOMAIN resp' = {"op", "status", "body"}
            /\ DOMAIN resp'.body \subseteq PostFields
            /\ resp'.body.id \in {NextId(ListOf(store)), NextId(INITIAL_POSTS)}
            /\ resp'.body.date \in Dates
            /\ ListOf(store') = ListOf(store)
            /\ store.exists => store' = store ]_vars

\* the second createPost was answered 201 and its post is not persisted
C18_Witness ==
    /\ resp.op = "POST"
    /\ resp.status = 201
    /\ ~latest.saved
    /\ Len(created) = 2
    /\ resp.body = created[2]
    /\ store = Stored(<<created[1]>> \o INITIAL_POSTS)

\* the list the read of a createPost returned: the post list of the store when
\* the read ended "ok"; otherwise the demo posts in the service, [] in the
\* file-backed route
ListRead(st, op, r) ==
    IF r = "ok" THEN ListOf(st) ELSE IF op = "POST" THEN INITIAL_POSTS ELSE << >>

\* C20 as stated: createPost on a store whose list is S returns a post with id
\* 1 + (the largest id in S), or 1 when S is empty, and the persisted list
\* afterwards is the new post followed by S.
C20_CreatePrependsToStored ==
    [][ (resp'.op \in {"POST", "POST file"} /\ resp'.status = 201) =>
            LET S == ListOf(store)
            IN  /\ resp'.body.id = (IF Len(S) = 0 THEN 1 ELSE MaxIdOf(S) + 1)
                /\ store' = Stored(<<resp'.body>> \o S) ]_vars

\* C20 amended: createPost returns a post with id 1 + (the largest id in L), or
\* 1 when L is empty, L being the list its read returned: S when the read
\* succeeds, the fallback list when it fails.  When the write succeeds the
\* persisted list afterwards is the new post followed by L; when it fails the
\* persisted list is still S.
C20_CreatePrependsToListRead ==
    [][ (resp'.op \in {"POST", "POST file"} /\ resp'.status = 201) =>
            LET S == ListOf(store)
                L == ListRead(store, resp'.op, latest'.read)
            IN  /\ resp'.body.id = (IF Len(L) = 0 THEN 1 ELSE MaxIdOf(L) + 1)
                /\ resp'.body.date \in Dates
                /\ IF latest'.saved
                   THEN /\ store' = Stored(<<resp'.body>> \o L)
                        /\ \A i \in 1..Len(L) : store'.posts[i + 1] = L[i]
                   ELSE ListOf(store') = S ]_vars

\* two createPost calls on the store whose list was empty returned the ids 1
\* and 2, and the persisted list holds the two posts, the later one first
C20_Witness ==
    /\ resp.op = "POST"
    /\ resp.status = 201
    /\ latest.saved /\ latest.read = "ok"
    /\ Len(created) = 2
    /\ created[1].id = 1
    /\ created[2].id = 2
    /\ store = Stored(<<created[2], created[1]>>)

(***************************************************************************)
(* Properties of the operations on one post                                *)
(***************************************************************************)
\* the operations that take the id of a post
IdOps == {"getPostById", "updatePost", "deletePost", "GET id", "PUT id", "DELETE id"}

\* the operations of the service among them
ServiceOps == {"getPostById", "updatePost", "deletePost"}

\* the list an operation works on when its storage read fails
FallbackList(op) == IF op \in ServiceOps THEN INITIAL_POSTS ELSE << >>

\* the list an operation works on when its storage read succeeds; the handlers
\* of /posts/[id] read a missing file as [] and seed nothing
ListReadOk(op, st) == IF op \in ServiceOps THEN ListOf(st) ELSE ReadPosts(st, "ok")

\* the step leaves the persisted post list as it was (the read of the service
\* seeds a store that does not exist with the demo posts)
ListUnchanged ==
    /\ ListOf(store') = ListOf(store)
    /\ store.exists => store' = store

\* C17 as stated: an operation on one post, called with an id that no stored
\* post has, ends not found (404) and leaves the persisted post list as it was.
C17_UnknownIdIsNotFound ==
    [][ (resp'.op \in IdOps /\ resp'.id \notin IdsOf(ListOf(store))) =>
            /\ resp'.status = 404
            /\ ListUnchanged ]_vars

\* C17 amended: an operation on one post ends not found exactly when no post of
\* the list it read has the id, and then it leaves the persisted post list as
\* it was.  The list read is the stored list when the storage read succeeds and
\* the fallback list when it fails: the demo posts in the service, [] in the
\* /posts/[id] handlers, which also read a missing file as [].
C17_UnknownIdInListRead ==
    [][ resp'.op \in IdOps =>
            /\ \E L \in {ListReadOk(resp'.op, store), FallbackList(resp'.op)} :
                  /\ ~fault' => L = ListReadOk(resp'.op, store)
                  /\ resp'.status = 404 <=> resp'.id \notin IdsOf(L)
            /\ resp'.status = 404 => ListUnchanged
            /\ resp'.id \notin (IdsOf(ListOf(store)) \cup IdsOf(FallbackList(resp'.op)))
                  => resp'.status = 404 ]_vars

\* deletePost(1) on the list without the first demo post, read without a fault,
\* ended not found and the list is as it was
C17_Witness ==
    /\ resp.op = "deletePost"
    /\ resp.id = 1
    /\ resp.status = 404
    /\ ~fault
    /\ store = Stored(Tail(INITIAL_POSTS))

(***************************************************************************)
(* Properties of two interleaved createPost calls                          *)
(***************************************************************************)
\* the post a finished call returned
Returned(p) == callPosts[p][1]

\* both calls are done and each got its list before any savePosts write
BothReadFirst ==
    /\ \A p \in Calls : pc[p] = "done"
    /\ \A p \in Calls : seen[p] = 0

\* C4: when both createPost calls read the list before either writes it back,
\* both return the same id, and the persisted list afterwards holds only one new
\* post: it is the local list of one call, one post longer than the list read,
\* not two.
C4_RaceLosesUpdate ==
    BothReadFirst =>
        /\ Returned(1).id = Returned(2).id
        /\ store.posts \in {callPosts[1], callPosts[2]}
        /\ Len(store.posts) = Len(INITIAL_POSTS) + 1
        /\ ~NoDuplicateIds(<<Returned(1), Returned(2)>>)

\* both calls returned the same id, for different posts, and one post is lost
C4_Witness ==
    /\ BothReadFirst
    /\ Returned(1) # Returned(2)
    /\ Returned(1).id = Returned(2).id
    /\ store.posts[1] = Returned(2)
    /\ \A i \in 1..Len(store.posts) : store.posts[i] # Returned(1)

(***************************************************************************)
(* Properties of the extraction step of /process-audio                     *)
(***************************************************************************)
\* Replies whose JSON object has the shape of PostSchema once the empty strings
\* and the missing_fields key are dropped, and replies that make an attempt fail
ValidReplies ==
    { Reply("empty", << >>), Reply("object", O_full), Reply("object", O_typed),
      Reply("object", O_kind), Reply("object", O_missing) }
SchemaFailReplies == { Reply("object", O_number), Reply("object", O_nulls) }
OtherFailReplies ==
    { Reply("throws", << >>), Reply("malformed", << >>), Reply("null", << >>) }
FailReplies == SchemaFailReplies \cup OtherFailReplies

\* the fields of object o that are non-empty strings
Meaningful(o) == { k \in ContentFields \cap DOMAIN o : o[k].t = "string" /\ o[k].s # "" }

AllMalformed ==
    /\ Len(llmLog) = 3
    /\ \A n \in 1..3 : llmLog[n].reply.kind = "malformed"

\* C8 as stated: malformed JSON on all 3 attempts ends in INVALID_FORMAT with
\* validation details in the response body.
C8_MalformedIsInvalidFormat ==
    AllMalformed =>
        /\ aresp.body.type = ErrorTypes.INVALID_FORMAT
        /\ "details" \in DOMAIN aresp.body

\* C8 amended: malformed JSON on all 3 attempts ends with the parse error
\* re-raised, and the endpoint answers 500 with type SERVER_ERROR and no
\* details; INVALID_FORMAT is answered only when the 3rd attempt failed the schema.
C8_MalformedIsServerError ==
    /\ AllMalformed =>
          /\ lastError.name = "SyntaxError"
          /\ aresp.status = 500
          /\ aresp.body.type = ErrorTypes.SERVER_ERROR
          /\ "details" \notin DOMAIN aresp.body
    /\ (aresp.status # 0 /\ aresp.body.type = ErrorTypes.INVALID_FORMAT) =>
          /\ Len(llmLog) = 3
          /\ llmLog[3].reply \in SchemaFailReplies

C8_Witness == AllMalformed /\ apc = "done" /\ aresp.status = 500

\* C9: when attempt 1 fails and attempt 2 yields a schema-valid object, the
\* response is 200 with exactly that object's non-empty string fields and the
\* request's type, nothing of the failure, and there is no third attempt.
C9_SecondAttemptWins ==
    (/\ Len(llmLog) >= 2
     /\ llmLog[1].reply \in FailReplies
     /\ llmLog[2].reply \in ValidReplies) =>
        LET o == llmLog[2].reply.obj
        IN  /\ Len(llmLog) = 2
            /\ aresp.status = 200
            /\ DOMAIN aresp.body = Meaningful(o) \cup {"type"}
            /\ \A k \in Meaningful(o) : aresp.body[k] = o[k].s
            /\ aresp.body.type = postType

C9_Witness ==
    /\ apc = "done"
    /\ Len(llmLog) = 2
    /\ llmLog[1].reply.kind = "malformed"
    /\ llmLog[2].reply = Reply("object", O_full)
    /\ aresp.status = 200
    /\ aresp.body.title = "Piano lessons"

\* the paths PostSchema rejects in each reply that fails the schema
ExpectedIssues(reply) ==
    IF reply = Reply("object", O_number) THEN {"title"} ELSE {"author", "location"}

\* the exception each other failing reply raises
ExpectedException(reply) ==
    IF reply.kind = "throws" THEN "APIConnectionError"
    ELSE IF reply.kind = "malformed" THEN "SyntaxError" ELSE "TypeError"

\* C10: the error of the 3rd attempt alone decides the terminal failure: a
\* schema failure gives 422 INVALID_FORMAT with its validation details; any other
\* failure is re-raised and answered as a generic 500 server/API error.
C10_LastAttemptDecides ==
    (Len(llmLog) = 3 /\ llmLog[3].reply \in FailReplies) =>
        IF llmLog[3].reply \in SchemaFailReplies
        THEN /\ aresp.status = 422
             /\ aresp.body.type = ErrorTypes.INVALID_FORMAT
             /\ aresp.body.details = ExpectedIssues(llmLog[3].reply)
        ELSE /\ aresp.status = 500
             /\ aresp.body.type \in {ErrorTypes.SERVER_ERROR, ErrorTypes.API_ERROR}
             /\ "details" \notin DOMAIN aresp.body
             /\ lastError.name = ExpectedException(llmLog[3].reply)

C10_Witness ==
    /\ apc = "done"
    /\ Len(llmLog) = 3
    /\ llmLog[1].reply.kind = "malformed"
    /\ llmLog[2].reply.kind = "throws"
    /\ llmLog[3].reply = Reply("object", O_nulls)
    /\ aresp.status = 422
    /\ aresp.body.details = {"author", "location"}

(***************************************************************************)
(* Properties of /process-audio as a whole                                 *)
(***************************************************************************)
\* the reply is a JSON object that reports a non-empty missing-fields list
ReportsMissing(reply) ==
    /\ reply.kind = "object"
    /\ "missing_fields" \in DOMAIN reply.obj
    /\ Len(reply.obj.missing_fields.a) > 0

\* C11: an attempt whose reply reports a non-empty missing-fields list is the
\* last attempt of the request, and the request is answered at once with type
\* INSUFFICIENT_INFO and the missing fields.
C11_InsufficientInfoAborts ==
    \A n \in 1..Len(llmLog) :
        ReportsMissing(llmLog[n].reply) =>
            /\ Len(llmLog) = n
            /\ apc \in {"cleanup", "done"}
            /\ aresp.status # 200
            /\ aresp.body.type = ErrorTypes.INSUFFICIENT_INFO
            /\ "fields" \in DOMAIN aresp.body

\* the transcription request of this call returned an empty or blank transcript
SilentAudio == Len(sent) = 1 /\ sent[1] \in {"empty", "blank"}

\* C12: an empty or whitespace-only transcript is answered 422 with type
\* INSUFFICIENT_INFO, and the language model is never called for the request.
C12_SilenceIsInsufficientInfo ==
    SilentAudio =>
        /\ aresp.status = 422
        /\ aresp.body.type = ErrorTypes.INSUFFICIENT_INFO
        /\ Len(llmLog) = 0

\* C13 as stated: once the response of a call is produced and its finally block
\* has run, the temp file of the call does not exist, whatever failed.
C13_TempFileGone == apc = "done" => ~tempFile

\* C13 amended: on every path on which the temp file path was set, the finally
\* block calls fs.unlink once, and afterwards the temp file does not exist
\* unless that unlink itself failed; a call that never set the path never
\* created the file.
C13_TempFileGoneUnlessUnlinkFails ==
    /\ tempFile => tempFilePath
    /\ apc = "done" =>
          /\ Len(unlinks) = (IF tempFilePath THEN 1 ELSE 0)
          /\ tempFile => unlinks = <<FALSE>>
          /\ unlinks = <<TRUE>> => ~tempFile
    /\ apc # "done" => Len(unlinks) = 0

\* a call that failed in the extraction step and whose temp file was removed
C13_Witness ==
    /\ apc = "done"
    /\ aresp.status = 422
    /\ Len(llmLog) = 3
    /\ unlinks = <<TRUE>>
    /\ ~tempFile

\* a multipart request without an audio file, or whose type is missing or invalid
BadInputAsStated ==
    areq.multipart /\ (~areq.audio \/ areq.type \notin {"Offer", "Request"})

\* a multipart request without an audio file, or whose type is present and invalid
BadInput ==
    areq.multipart /\ (~areq.audio \/ areq.type \notin {"Offer", "Request", ""})

\* neither service was called and no temp file was created
NothingDone ==
    /\ Len(sent) = 0
    /\ Len(llmLog) = 0
    /\ ~tempFilePath
    /\ ~tempFile

\* C14 as stated: a request without an audio file, or whose type is missing or
\* not "Offer" or "Request", is answered with a 4xx status, with no call of the
\* transcription or extraction service and no temp file.
C14_RejectsBadInput ==
    (BadInputAsStated /\ apc # "start") =>
        /\ aresp.status \in 400..499
        /\ NothingDone

\* C14 amended: with the API key configured, a request without an audio file, or
\* whose type is present and not "Offer" or "Request", is answered 400 with no
\* service call and no temp file; a missing type is taken as "Offer" and the
\* request goes on; without the API key every request is answered 500 before
\* its input is looked at.
C14_RejectsInvalidInput ==
    apc # "start" =>
        /\ (areq.key /\ BadInput) =>
              /\ aresp.status = 400
              /\ NothingDone
        /\ (areq.key /\ areq.multipart /\ areq.audio /\ areq.type = "") =>
              /\ postType = "Offer"
              /\ tempFilePath
        /\ ~areq.key =>
              /\ aresp.status = 500
              /\ NothingDone

C14_Witness ==
    /\ apc = "done"
    /\ areq.key /\ areq.multipart /\ areq.audio
    /\ areq.type = "Wanted"
    /\ aresp.status = 400
    /\ NothingDone

\* C15: the status of every error response follows from the error kind of its
\* body: INSUFFICIENT_INFO and INVALID_FORMAT go with a 4xx status, API_ERROR and
\* SERVER_ERROR with a 5xx status, never the other way round.
C15_StatusMatchesKind ==
    (aresp.status # 0 /\ aresp.status # 200) =>
        /\ aresp.body.type \in {ErrorTypes.INSUFFICIENT_INFO, ErrorTypes.INVALID_FORMAT}
              => aresp.status \in 400..499
        /\ aresp.body.type \in {ErrorTypes.API_ERROR, ErrorTypes.SERVER_ERROR}
              => aresp.status \in 500..599

\* C16: a call sends at most one transcription request, exactly one once the
\* audio was read back, and a request that fails, by a non-OK status or by an
\* exception of the request, is answered with error kind API_ERROR.
C16_TranscriptionFailureIsApiError ==
    /\ Len(sent) <= 1
    /\ apc = "extract" => Len(sent) = 1
    /\ (Len(sent) = 1 /\ sent[1] \in {"throws", "notOk"}) =>
          /\ aresp.body.type = ErrorTypes.API_ERROR
          /\ Len(llmLog) = 0

(***************************************************************************)
(* Properties of the creation form                                         *)
(***************************************************************************)
\* C19: a recording answered 200 merges the response into the form: a form field
\* that is absent or empty in the response keeps the value it had before the
\* recording, a field present in the response takes the response's value.
C19_FormMergesResult ==
    [][ Len(recordings') > Len(recordings) =>
            LET data == recordings'[Len(recordings')].data
            IN  \A k \in FormFields :
                    formData'[k] = IF k \in DOMAIN data /\ data[k] # ""
                                   THEN data[k] ELSE formData[k] ]_vars

(***************************************************************************)
(* Properties of the extraction result                                     *)
(***************************************************************************)
\* the last reply of the language model, the one a 200 response is built from
LastReply == llmLog[Len(llmLog)].reply

\* C21: every successful extraction result has its type equal to the post type
\* of the request, whatever the language model put in a type field of its JSON.
C21_TypeIsTheRequestType ==
    aresp.status = 200 =>
        /\ aresp.body.type = postType
        /\ postType = PostTypeOf(areq.type)
        /\ areq.type # "" => aresp.body.type = areq.type

\* a Request answered 200 from a reply whose JSON says type "Offer"
C21_Witness ==
    /\ apc = "done"
    /\ aresp.status = 200
    /\ areq.type = "Request"
    /\ LastReply = Reply("object", O_kind)
    /\ aresp.body.type = "Request"

\* C22: a successful extraction result has no missing_fields key and no
\* content field whose value is the empty string: a field the model returned
\* as "" is absent from the result.
C22_NoMarkerNoEmptyField ==
    aresp.status = 200 =>
        /\ "missing_fields" \notin DOMAIN aresp.body
        /\ \A k \in ContentFields \cap DOMAIN aresp.body : aresp.body[k] # ""
        /\ LastReply.kind = "object" =>
              \A k \in ContentFields \cap DOMAIN LastReply.obj :
                  LastReply.obj[k] = JStr("") => k \notin DOMAIN aresp.body

\* a reply with title "" and a missing_fields list was answered 200 without them
C22_Witness ==
    /\ apc = "done"
    /\ aresp.status = 200
    /\ LastReply = Reply("object", O_missing)
    /\ DOMAIN aresp.body = {"type"}

(***************************************************************************)
(* /process-audio without the API key                                      *)
(***************************************************************************)
\* C23: when the API key is not configured, every request is answered 500 with
\* type SERVER_ERROR, and no temp file is created, the transcription service is
\* not called and the language model is not called.
C23_NoKeyIsServerError ==
    (~areq.key /\ apc \notin {"idle", "start"}) =>
        /\ aresp.status = 500
        /\ aresp.body.type = ErrorTypes.SERVER_ERROR
        /\ NothingDone
        /\ Len(unlinks) = 0

\* a request that lacks nothing but the key has been answered and cleaned up
C23_Witness ==
    /\ ~areq.key
    /\ areq.multipart /\ areq.audio /\ areq.type = "Request"
    /\ apc = "done"
    /\ aresp.status = 500
    /\ aresp.body.error = "Groq API key is not configured on the server"

(***************************************************************************)
(* The identifier of a post under PUT /posts/[id]                          *)
(***************************************************************************)
\* the handlers of /posts/[id]
RouteIdOps == {"GET id", "PUT id", "DELETE id"}

\* C24: PUT /posts/{id} on an existing post does not change the post's id: the
\* stored ids are the same values as before, and a GET, PUT or DELETE with the
\* same id that follows the update (both without a storage fault) still finds
\* the post.
C24_PutKeepsId ==
    [][ /\ (resp'.op = "PUT id" /\ resp'.status = 200 /\ ~fault') =>
              IdsOf(store'.posts) = IdsOf(store.posts)
        /\ (/\ resp.op = "PUT id" /\ resp.status = 200 /\ ~fault
            /\ resp'.op \in RouteIdOps /\ resp'.id = resp.id /\ ~fault') =>
              resp'.status # 404 ]_vars

(***************************************************************************)
(* Identifiers over sequences of createPost and deletePost                 *)
(***************************************************************************)
\* C25: an id is never reused: in a sequence of createPost and deletePost calls
\* of one writer (here: with no storage fault so far), the id a createPost
\* returns differs from the id of every post created before it, deleted or
\* not, and of every post in the store.
C25_IdNeverReused ==
    [][ (resp'.op = "POST" /\ created' # created /\ faults' = 0) =>
            resp'.body.id \notin (IdsOf(created) \cup IdsOf(ListOf(store))) ]_vars

(***************************************************************************)
(* Storage faults and the persisted list                                   *)
(***************************************************************************)
\* the operations of the service that write
WriteOps == {"POST", "updatePost", "deletePost"}

\* C26: a failed read loses no data: when the read inside createPost,
\* updatePost or deletePost fails and the write that follows succeeds, every
\* post persisted before the call (but the one updated or deleted) is still
\* persisted after it.  A call with a storage fault that changed the store is a
\* call whose read failed and whose write succeeded: a failed write leaves the
\* store as it was.
C26_FailedReadLosesNothing ==
    [][ (resp'.op \in WriteOps /\ fault' /\ store.exists /\ store' # store) =>
            \A i \in 1..Len(store.posts) :
                (resp'.op = "POST" \/ store.posts[i].id # resp'.id) =>
                    \E j \in 1..Len(store'.posts) : store'.posts[j] = store.posts[i] ]_vars

(***************************************************************************)
(* Seeding under two calls in flight                                       *)
(***************************************************************************)
\* the step is the client.set of the demo posts in the getPosts of some call
SeedStep == \E p \in Calls : pc[p] = "seed" /\ pc'[p] = "save"

\* C27: seeding never overwrites stored data: the write of the demo posts by a
\* getPosts that found the key absent removes no post that a createPost has
\* persisted in the meantime.
C27_SeedingKeepsStoredPosts ==
    [][ SeedStep =>
            \A i \in 1..Len(store.posts) :
                \E j \in 1..Len(store'.posts) : store'.posts[j] = store.posts[i] ]_vars

(***************************************************************************)
(* Two /process-audio requests and their temp files                        *)
(***************************************************************************)
\* C28: concurrent requests are isolated: each request transcribes exactly the
\* audio bytes it uploaded, also when two requests take their temp file name in
\* the same millisecond; no request finds its file deleted (ENOENT) or replaced
\* by the other request before it has read it.
C28_RequestsIsolated ==
    \A p \in Calls : fileContent[p] \in {0, p}

(***************************************************************************)
(* The voice-recording widget, one recording at a time                     *)
(***************************************************************************)
\* recording n was stopped and its request has not completed yet
StoppedNotDone(n) == recorders[n] = "stopping" \/ n \in inFlight

\* C29: at most one recording is processed at a time: from the moment a
\* recording is stopped until its request has completed no new recording can
\* be started (the start button is not enabled), every blob is built from the chunks of its own recording alone,
\* and no two requests of the widget are in flight together.
C29_OneRecordingAtATime ==
    /\ \A n \in Recorders : StoppedNotDone(n) => ~StartEnabled
    /\ \A i \in 1..Len(blobs) : blobs[i].chunks = <<blobs[i].rec>>
    /\ Cardinality(inFlight) <= 1

(***************************************************************************)
(* The frame of updatePost and deletePost                                  *)
(***************************************************************************)
\* the operations that update one post, and those that delete one
UpdateOps == {"updatePost", "PUT id"}
DeleteOps == {"deletePost", "DELETE id"}

\* the posts of the list whose id is not id, in the order of the list
Others(posts, id) == SelectSeq(posts, LAMBDA p : p.id # id)

\* list after comes from list before by an update of one post with that id:
\* same length, every other position as it was
UpdatedOnly(before, after, id) ==
    /\ Len(after) = Len(before)
    /\ \E i \in 1..Len(before) :
          /\ before[i].id = id
          /\ \A j \in (1..Len(before)) \ {i} : after[j] = before[j]

\* list after comes from list before by the removal of the posts with that id:
\* the others stay, in their order; one post goes when the ids are unique
DeletedOnly(before, after, id) ==
    /\ after = Others(before, id)
    /\ Len(after) < Len(before)
    /\ NoDuplicateIds(before) => Len(after) = Len(before) - 1

\* the effect of operation op on the list
OnlyThatPost(op, before, after, id) ==
    IF op \in UpdateOps THEN UpdatedOnly(before, after, id)
    ELSE DeletedOnly(before, after, id)

\* C30 as stated: an updatePost or deletePost that succeeds (returns the post,
\* returns true, answers 200) affects only the post with that id in the
\* persisted list: the others stay, unchanged and in order; the length is the
\* same after an update and one less after a delete.
C30_OnlyThatPostAffected ==
    [][ (resp'.op \in UpdateOps \cup DeleteOps /\ resp'.status = 200) =>
            IF resp'.op \in UpdateOps
            THEN UpdatedOnly(ListOf(store), ListOf(store'), resp'.id)
            ELSE /\ ListOf(store') = Others(ListOf(store), resp'.id)
                 /\ Len(ListOf(store')) = Len(ListOf(store)) - 1 ]_vars

\* C30 amended: an updatePost or deletePost that succeeds and whose write
\* succeeds persists the list it read with only the post of that id affected:
\* update replaces one post and keeps length and every other position; delete
\* removes the posts with that id, one when the ids are unique, and keeps the
\* others in order.  The list read is the stored list when the read succeeds,
\* the fallback list when it fails.  When the write fails the persisted list
\* stays as it was.
C30_OnlyThatPostOfListRead ==
    [][ (resp'.op \in UpdateOps \cup DeleteOps /\ resp'.status = 200) =>
            \E L \in {ListReadOk(resp'.op, store), FallbackList(resp'.op)} :
                /\ ~fault' =>
                      /\ L = ListReadOk(resp'.op, store)
                      /\ store'.exists
                      /\ OnlyThatPost(resp'.op, L, store'.posts, resp'.id)
                /\ fault' =>
                      \/ ListUnchanged
                      \/ /\ store'.exists
                         /\ OnlyThatPost(resp'.op, L, store'.posts, resp'.id) ]_vars

\* deletePost(2) on the demo posts, without a fault: posts 1 and 3 are left
C30_Witness ==
    /\ resp.op = "deletePost"
    /\ resp.id = 2
    /\ resp.status = 200
    /\ ~fault
    /\ store = Stored(<<INITIAL_POSTS[1], INITIAL_POSTS[3]>>)

====
